---- MODULE Spec2Model ----
(***************************************************************************)
(* Model of fedora/client/pkgdb.py: the PackageDB client.  One client,     *)
(* one synchronous invocation at a time.  Every send_request is logged in  *)
(* `sent`, every answer of the server in `recv`, and the result of the     *)
(* invocation (return value or raised exception) in `outcome`.             *)
(*                                                                         *)
(* Strings that the code parses (branch abbreviations) are sequences of    *)
(* one-character strings; other strings are TLA+ strings.  A Python value  *)
(* that may be None is a record [some, val].                               *)
(***************************************************************************)
EXTENDS Integers, Sequences, FiniteSets, TLC

VARIABLES pc, frame, sent, recv, outcome

vars == <<pc, frame, sent, recv, outcome>>

\* ---------------------------------------------------------------- bounds
\* number of "-"-separated pieces of a generated branch abbreviation
MaxParts == 3
\* length of a generated branch list
MaxList == 2

\* ------------------------------------------------------- Python values
NoneStr == [some |-> FALSE, val |-> ""]
NoneList == [some |-> FALSE, val |-> <<>>]
Some(v) == [some |-> TRUE, val |-> v]

\* Python truth value of an optional string / optional list
\* faulty variant: "is not None" instead of the truth value
TruthyStr_notNone(x) == x.some
TruthyStr(x) == x.some /\ x.val # ""
TruthyList(x) == x.some /\ x.val # <<>>

\* x in lst, for a list
InList(x, lst) == \E i \in 1..Len(lst) : lst[i] = x

\* --------------------------------------------------- branch abbreviations
Devel == <<"d", "e", "v", "e", "l">>

COLLECTIONMAP ==
    (<<"F">> :> "Fedora") @@
    (<<"F", "C">> :> "Fedora") @@
    (<<"E", "L">> :> "Fedora EPEL") @@
    (<<"E", "P", "E", "L">> :> "Fedora EPEL") @@
    (<<"O", "L", "P", "C">> :> "Fedora OLPC") @@
    (<<"R", "H", "L">> :> "Red Hat Linux")

\* str.split('-'): every "-" separates, so n separators give n+1 pieces
RECURSIVE split(_)
split(s) ==
    IF \A i \in 1..Len(s) : s[i] # "-"
    THEN <<s>>
    ELSE LET i == CHOOSE k \in 1..Len(s) :
                      s[k] = "-" /\ \A j \in 1..(k - 1) : s[j] # "-"
         IN  <<SubSeq(s, 1, i - 1)>> \o split(SubSeq(s, i + 1, Len(s)))

\* '-'.join(parts), used to build the abbreviations the model feeds in
RECURSIVE join(_)
join(parts) ==
    IF Len(parts) = 1 THEN parts[1]
    ELSE parts[1] \o <<"-">> \o join(Tail(parts))

\* canonical_branch_name(branch): the returned pair, or the exception raised.
\* "collection, version = branch.split('-')" raises ValueError unless the
\* split has exactly two pieces.
canonical_branch_name(branch) ==
    IF branch = Devel
    THEN [kind |-> "return", collection |-> "Fedora", version |-> Devel]
    ELSE LET parts == split(branch) IN
         IF Len(parts) # 2
         THEN [kind |-> "ValueError", collection |-> "", version |-> <<>>]
         ELSE IF parts[1] \in DOMAIN COLLECTIONMAP
              THEN [kind |-> "return", collection |-> COLLECTIONMAP[parts[1]],
                    version |-> parts[2]]
              ELSE [kind |-> "PackageDBError", collection |-> parts[1],
                    version |-> <<>>]

\* ------------------------------------------------------------ input sets
Words == DOMAIN COLLECTIONMAP \cup {<<"Z", "Z">>, <<>>, <<"6">>, <<"1", "0">>}
Tokens == {Devel} \cup
          {join(p) : p \in UNION {[1..n -> Words] : n \in 1..MaxParts}}

F10 == <<"F", "-", "1", "0">>
ListTokens == {Devel, F10}
BranchLists == UNION {[1..n -> ListTokens] : n \in 0..MaxList}

Pkgs == {"bash", "newpkg"}
Owners == {NoneStr, Some(""), Some("alice")}
Descriptions == {NoneStr, Some("a shell")}
OptBranchLists == {NoneList} \cup {Some(l) : l \in BranchLists}
UserLists == {NoneList, Some(<<"bob">>)}

\* ------------------------------------------------------ server responses
\* What send_request gets back.  exc = TRUE is the server's exception
\* envelope, which the base client turns into a raised AppError; otherwise
\* the record is the decoded JSON payload handed to the caller: the 'status'
\* key may be absent (hasStatus = FALSE), and its Python value is written as
\* the literal ("True", "False", "0", "1").
Msgs == {"no such package", "partial"}
ExtrasLists == {<<>>, <<"pkgA", "pkgB">>}
Payload(hasStatus, status, message, extras) ==
    [exc |-> FALSE, hasStatus |-> hasStatus, status |-> status,
     message |-> message, extras |-> extras]
Payloads ==
    {Payload(FALSE, "", "", <<>>)} \cup
    {Payload(TRUE, st, "", <<>>) : st \in {"True", "1"}} \cup
    {Payload(TRUE, st, m, e) : st \in {"False", "0"}, m \in Msgs,
                               e \in ExtrasLists}
ExcEnvelopes ==
    {[exc |-> TRUE, hasStatus |-> FALSE, status |-> "", message |-> "denied",
      extras |-> e] : e \in ExtrasLists}
Responses == Payloads \cup ExcEnvelopes

\* Python "not status"
\* faulty variant: "status is False" instead of "not status"
Falsy_isFalse(status) == status = "False"
Falsy(status) == status \in {"False", "0"}

\* 'status' in response and not response['status']
\* faulty variant: the status check left out
StatusFails_never(response) == FALSE
StatusFails(response) == response.hasStatus /\ Falsy(response.status)

\* the base client raises AppError for the server's exception envelope
BaseClientRaises(response) == response.exc
BaseClientError(response) ==
    [kind |-> "AppError", name |-> "ServerExc", message |-> response.message,
     extras |-> response.extras]

\* ---------------------------------------------------------------- requests
NoParams == [some |-> FALSE, val |-> <<>>]
Request(route, args, auth, params) ==
    [route |-> route, args |-> args, auth |-> auth, params |-> params]

EmptyDict == [k \in {} |-> k]

\* simplejson.dumps(lst): the list as JSON text, kept apart from the list
dumps(lst) == [json |-> lst]

NoOutcome == [kind |-> "none"]
NoFrame == [op |-> "none"]
Ready == pc = "idle"

Init ==
    /\ pc = "idle"
    /\ frame = NoFrame
    /\ sent = <<>>
    /\ recv = <<>>
    /\ outcome = NoOutcome

\* ---------------------------------------------- canonical_branch_name call
BranchError(r) ==
    IF r.kind = "PackageDBError"
    THEN [kind |-> "PackageDBError",
          message |-> [fmt |-> "Collection abbreviation %(collection)s is unknown.  Use F, FC, EL, or OLPC",
                       collection |-> r.collection]]
    ELSE [kind |-> r.kind]

call_canonical_branch_name(branch) ==
    /\ Ready
    /\ frame' = [op |-> "canonical_branch_name", branch |-> branch]
    /\ sent' = <<>>
    /\ recv' = <<>>
    /\ LET r == canonical_branch_name(branch) IN
       outcome' = IF r.kind = "return"
                  THEN [kind |-> "return",
                        value |-> <<r.collection, r.version>>]
                  ELSE BranchError(r)
    /\ pc' = "done"

\* ---------------------------------------------------------- get_package_info
PackageInfoRequest(pkg, data) == Request("/packages/name/%s", <<pkg>>, FALSE, data)

get_package_info(pkg, branch) ==
    /\ Ready
    /\ frame' = [op |-> "get_package_info", pkg |-> pkg, branch |-> branch]
    /\ recv' = <<>>
    /\ IF branch.some /\ branch.val # <<>>
       THEN LET r == canonical_branch_name(branch.val) IN
            IF r.kind = "return"
            THEN /\ sent' = <<PackageInfoRequest(pkg,
                               Some([collectionName |-> r.collection,
                                     collectionVersion |-> r.version]))>>
                 /\ outcome' = NoOutcome
                 /\ pc' = "get_package_info"
            ELSE /\ sent' = <<>>
                 /\ outcome' = BranchError(r)
                 /\ pc' = "done"
       ELSE /\ sent' = <<PackageInfoRequest(pkg, NoParams)>>
            /\ outcome' = NoOutcome
            /\ pc' = "get_package_info"

\* result of the status check that follows the request
CheckedResult(response) ==
    IF BaseClientRaises(response) THEN BaseClientError(response)
    ELSE IF StatusFails(response)
         THEN [kind |-> "AppError", name |-> "PackageDBError",
               message |-> response.message]
         ELSE [kind |-> "return", value |-> response]

\* result of an operation that returns what send_request returns
UncheckedResult(response) ==
    IF BaseClientRaises(response) THEN BaseClientError(response)
    ELSE [kind |-> "return", value |-> response]

\* faulty variant: the request is sent again after a failure
get_package_info_response_retry(response) ==
    /\ pc = "get_package_info"
    /\ recv' = Append(recv, response)
    /\ IF CheckedResult(response).kind = "AppError" /\ Len(sent) < 2
       THEN /\ sent' = Append(sent, sent[1])
            /\ UNCHANGED <<pc, outcome>>
       ELSE /\ outcome' = CheckedResult(response)
            /\ pc' = "done"
            /\ UNCHANGED sent
    /\ UNCHANGED frame

get_package_info_response(response) ==
    /\ pc = "get_package_info"
    /\ recv' = Append(recv, response)
    /\ outcome' = CheckedResult(response)
    /\ pc' = "done"
    /\ UNCHANGED <<frame, sent>>

\* -------------------------------------------------------------- clone_branch
clone_branch(pkg, branch, master, email_log) ==
    /\ Ready
    /\ frame' = [op |-> "clone_branch", pkg |-> pkg, branch |-> branch,
                 master |-> master, email_log |-> email_log]
    /\ recv' = <<>>
    /\ sent' = <<Request("/packages/dispatcher/clone_branch/%s/%s/%s",
                         <<pkg, branch, master>>, TRUE,
                         Some([email_log |-> email_log]))>>
    /\ outcome' = NoOutcome
    /\ pc' = "clone_branch"

clone_branch_response(response) ==
    /\ pc = "clone_branch"
    /\ recv' = Append(recv, response)
    /\ outcome' = UncheckedResult(response)
    /\ pc' = "done"
    /\ UNCHANGED <<frame, sent>>

\* --------------------------------------------------------------- mass_branch
mass_branch(branch) ==
    /\ Ready
    /\ frame' = [op |-> "mass_branch", branch |-> branch]
    /\ recv' = <<>>
    /\ sent' = <<Request("/collections/mass_branch/%s", <<branch>>, TRUE,
                         NoParams)>>
    /\ outcome' = NoOutcome
    /\ pc' = "mass_branch"

mass_branch_response(response) ==
    /\ pc = "mass_branch"
    /\ recv' = Append(recv, response)
    /\ outcome' = UncheckedResult(response)
    /\ pc' = "done"
    /\ UNCHANGED <<frame, sent>>

\* ---------------------------------------------------------- add_edit_package
AddPackageRequest(f) ==
    Request("/packages/dispatcher/add_package", <<>>, TRUE,
            Some([package |-> f.pkg, owner |-> f.owner,
                  summary |-> f.description]))

\* the edit parameters built from what is still set (lines 198-215)
EditData(f) ==
    (IF TruthyStr(f.owner) THEN "owner" :> f.owner ELSE EmptyDict) @@
    (IF TruthyStr(f.description) THEN "summary" :> f.description
                                 ELSE EmptyDict) @@
    (IF TruthyList(f.cc_list) THEN "ccList" :> dumps(f.cc_list.val)
                              ELSE EmptyDict) @@
    (IF TruthyList(f.comaintainers)
        THEN "comaintList" :> dumps(f.comaintainers.val) ELSE EmptyDict) @@
    (IF TruthyList(f.groups) THEN "groups" :> dumps(f.groups.val)
                             ELSE EmptyDict) @@
    (IF TruthyList(f.branches) THEN "collections" :> f.branches.val
                               ELSE EmptyDict)

EditPackageRequest(f) ==
    Request("/packages/dispatcher/edit_package/%s", <<f.pkg>>, TRUE,
            Some(EditData(f)))

\* branches after "if 'devel' not in branches: branches.append('devel')"
WithDevel(branches) ==
    IF InList(Devel, branches) THEN branches ELSE Append(branches, Devel)

add_edit_package(pkg, owner, description, branches, cc_list, comaintainers, groups) ==
    /\ Ready
    /\ frame' = [op |-> "add_edit_package", pkg |-> pkg, owner |-> owner,
                 description |-> description, branches |-> branches,
                 cc_list |-> cc_list, comaintainers |-> comaintainers,
                 groups |-> groups, arg_owner |-> owner,
                 arg_description |-> description, arg_branches |-> branches]
    /\ recv' = <<>>
    /\ sent' = <<PackageInfoRequest(pkg, NoParams)>>
    /\ outcome' = NoOutcome
    /\ pc' = "aep_lookup"

\* get_package_info(pkg) comes back inside the try block (lines 171-195)
add_edit_package_lookup(response) ==
    /\ pc = "aep_lookup"
    /\ recv' = Append(recv, response)
    /\ IF CheckedResult(response).kind = "AppError"
       THEN IF TruthyStr(frame.owner)
            THEN IF ~frame.branches.some
                 THEN \* 'devel' not in None
                      /\ outcome' = [kind |-> "TypeError"]
                      /\ pc' = "done"
                      /\ UNCHANGED <<frame, sent>>
                 ELSE /\ frame' = [frame EXCEPT !.branches =
                                       Some(WithDevel(frame.branches.val))]
                      /\ sent' = Append(sent, AddPackageRequest(frame))
                      /\ outcome' = NoOutcome
                      /\ pc' = "aep_create"
            ELSE /\ outcome' =
                      [kind |-> "PackageDBError",
                       message |-> [fmt |-> "Package %(pkg)s does not exist and we do not have enough information to create it.",
                                    pkg |-> frame.pkg]]
                 /\ pc' = "done"
                 /\ UNCHANGED <<frame, sent>>
       ELSE /\ sent' = Append(sent, EditPackageRequest(frame))
            /\ outcome' = NoOutcome
            /\ pc' = "aep_edit"
            /\ UNCHANGED frame

\* "owner = None; description = None" after a successful creation
\* faulty variant: owner and description are not cleared
ClearApplied_keep(f) == f
ClearApplied(f) == [f EXCEPT !.owner = NoneStr, !.description = NoneStr]

\* the add_package request comes back (lines 184-191)
add_edit_package_create(response) ==
    /\ pc = "aep_create"
    /\ recv' = Append(recv, response)
    /\ IF BaseClientRaises(response)
       THEN /\ outcome' = BaseClientError(response)
            /\ pc' = "done"
            /\ UNCHANGED <<frame, sent>>
       ELSE IF StatusFails(response)
            THEN /\ outcome' =
                      [kind |-> "AppError", name |-> "PackageDBError",
                       message |-> [fmt |-> "PackageDB returned an error creating %(pkg)s: %(msg)s",
                                    pkg |-> frame.pkg,
                                    msg |-> response.message]]
                 /\ pc' = "done"
                 /\ UNCHANGED <<frame, sent>>
            ELSE LET f == ClearApplied(frame)
                 IN  /\ frame' = f
                     /\ sent' = Append(sent, EditPackageRequest(f))
                     /\ outcome' = NoOutcome
                     /\ pc' = "aep_edit"

\* the edit_package request comes back (lines 218-223)
add_edit_package_edit(response) ==
    /\ pc = "aep_edit"
    /\ recv' = Append(recv, response)
    /\ outcome' =
          IF BaseClientRaises(response) THEN BaseClientError(response)
          ELSE IF StatusFails(response)
               THEN [kind |-> "AppError", name |-> "PackageDBError",
                     message |-> [fmt |-> "Unable to save all information for %(pkg)s: %(msg)s",
                                  pkg |-> frame.pkg,
                                  msg |-> response.message]]
               ELSE [kind |-> "return", value |-> "None"]
    /\ pc' = "done"
    /\ UNCHANGED <<frame, sent>>

\* ---------------------------------------------------------------- get_owners
Collections == {NoneStr, Some(""), Some("Fedora")}
CollectionVers == {NoneStr, Some("10")}

OwnersRequest(package, collection, collection_ver) ==
    IF TruthyStr(collection)
    THEN IF TruthyStr(collection_ver)
         THEN Request("/packages/name/%s/%s/%s",
                      <<package, collection.val, collection_ver.val>>,
                      FALSE, NoParams)
         ELSE Request("/packages/name/%s/%s", <<package, collection.val>>,
                      FALSE, NoParams)
    ELSE Request("/packages/name/%s", <<package>>, FALSE, NoParams)

get_owners(package, collection, collection_ver) ==
    /\ Ready
    /\ frame' = [op |-> "get_owners", package |-> package,
                 collection |-> collection,
                 collection_ver |-> collection_ver]
    /\ recv' = <<>>
    /\ sent' = <<OwnersRequest(package, collection, collection_ver)>>
    /\ outcome' = NoOutcome
    /\ pc' = "get_owners"

get_owners_response(response) ==
    /\ pc = "get_owners"
    /\ recv' = Append(recv, response)
    /\ outcome' = CheckedResult(response)
    /\ pc' = "done"
    /\ UNCHANGED <<frame, sent>>

\* --------------------------------------------------------------- remove_user
Users == {"bob"}

\* faulty variant: "is not None" instead of the truth value
RemoveUserParams_ifGiven(username, pkg_name, collectn_list) ==
    IF collectn_list.some
    THEN [username |-> username, pkg_name |-> pkg_name,
          collectn_list |-> collectn_list.val]
    ELSE [username |-> username, pkg_name |-> pkg_name]

RemoveUserParams(username, pkg_name, collectn_list) ==
    IF TruthyList(collectn_list)
    THEN [username |-> username, pkg_name |-> pkg_name,
          collectn_list |-> collectn_list.val]
    ELSE [username |-> username, pkg_name |-> pkg_name]

remove_user(username, pkg_name, collectn_list) ==
    /\ Ready
    /\ frame' = [op |-> "remove_user", username |-> username,
                 pkg_name |-> pkg_name, collectn_list |-> collectn_list]
    /\ recv' = <<>>
    /\ sent' = <<Request("/packages/dispatcher/remove_user", <<>>, TRUE,
                         Some(RemoveUserParams(username, pkg_name,
                                               collectn_list)))>>
    /\ outcome' = NoOutcome
    /\ pc' = "remove_user"

remove_user_response(response) ==
    /\ pc = "remove_user"
    /\ recv' = Append(recv, response)
    /\ outcome' = UncheckedResult(response)
    /\ pc' = "done"
    /\ UNCHANGED <<frame, sent>>

\* the result reaches the caller; the parameters built for the call are
\* discarded and the client is ready for the next call
return_to_caller ==
    /\ pc = "done"
    /\ pc' = "idle"
    /\ frame' = NoFrame
    /\ sent' = <<>>
    /\ recv' = <<>>
    /\ outcome' = NoOutcome

\* ------------------------------------------------------------ specification
OptTokens == {NoneList} \cup {Some(t) : t \in Tokens}

Next ==
    \/ \E b \in Tokens : call_canonical_branch_name(b)
    \/ \E p \in Pkgs, b \in OptTokens : get_package_info(p, b)
    \/ \E r \in Responses : get_package_info_response(r)
    \/ \E p \in Pkgs, b \in ListTokens, m \in ListTokens, e \in BOOLEAN :
          clone_branch(p, b, m, e)
    \/ \E r \in Responses : clone_branch_response(r)
    \/ \E b \in ListTokens : mass_branch(b)
    \/ \E r \in Responses : mass_branch_response(r)
    \/ \E p \in Pkgs, o \in Owners, d \in Descriptions, b \in OptBranchLists,
          cc \in UserLists, co \in UserLists, g \in UserLists :
          add_edit_package(p, o, d, b, cc, co, g)
    \/ \E r \in Responses : add_edit_package_lookup(r)
    \/ \E r \in Responses : add_edit_package_create(r)
    \/ \E r \in Responses : add_edit_package_edit(r)
    \/ \E p \in Pkgs, c \in Collections, v \in CollectionVers :
          get_owners(p, c, v)
    \/ \E r \in Responses : get_owners_response(r)
    \/ \E u \in Users, p \in Pkgs, c \in OptBranchLists : remove_user(u, p, c)
    \/ \E r \in Responses : remove_user_response(r)
    \/ return_to_caller

Spec == Init /\ [][Next]_vars

\* the operation in progress or just finished
Done(op) == pc = "done" /\ frame.op = op

\* ------------------------------------------------------------------ claims
\* vocabulary of the claims, stated on the logged requests and responses
ReportsFailure(r) == ~r.exc /\ r.hasStatus /\ r.status \in {"False", "0"}
Accepted(r) == ~r.exc /\ ~ReportsFailure(r)
IsLookup(q) == q.route = "/packages/name/%s"
IsCreate(q) == q.route = "/packages/dispatcher/add_package"
IsEdit(q) == q.route = "/packages/dispatcher/edit_package/%s"
Supplied(x) == x.some /\ x.val # ""
InAddEdit == frame.op = "add_edit_package"
LookupFailed == Len(recv) >= 1 /\ ~Accepted(recv[1])

RECURSIVE CountDevel(_)
CountDevel(l) ==
    IF l = <<>> THEN 0
    ELSE (IF Head(l) = Devel THEN 1 ELSE 0) + CountDevel(Tail(l))

\* C1: add_edit_package with a branch list, a failed lookup, a non-empty
\* owner and an accepted creation sends, in this order, the create request
\* with params exactly {package, owner, summary: description} and then an
\* edit request for the package with neither 'owner' nor 'summary'.
C1_CreateThenEdit ==
    (/\ InAddEdit
     /\ frame.arg_branches.some
     /\ Supplied(frame.arg_owner)
     /\ LookupFailed
     /\ Len(recv) >= 2
     /\ Accepted(recv[2]))
    => /\ Len(sent) = 3
       /\ IsLookup(sent[1])
       /\ sent[2] = Request("/packages/dispatcher/add_package", <<>>, TRUE,
                            Some([package |-> frame.pkg,
                                  owner |-> frame.arg_owner,
                                  summary |-> frame.arg_description]))
       /\ IsEdit(sent[3])
       /\ sent[3].args = <<frame.pkg>>
       /\ "owner" \notin DOMAIN sent[3].params.val
       /\ "summary" \notin DOMAIN sent[3].params.val

C1_Witness ==
    /\ Done("add_edit_package")
    /\ frame.arg_owner = Some("alice")
    /\ frame.arg_description = Some("a shell")
    /\ Len(sent) = 3
    /\ IsCreate(sent[2])
    /\ IsEdit(sent[3])
    /\ outcome.kind = "return"

\* C2: add_edit_package whose lookup fails with no owner (None or empty)
\* raises the local PackageDBError "does not exist and we do not have enough
\* information to create it" and sends nothing but the lookup.
C2_NoOwnerNoCreate ==
    (InAddEdit /\ ~Supplied(frame.arg_owner) /\ LookupFailed)
    => /\ pc = "done"
       /\ outcome.kind = "PackageDBError"
       /\ outcome.message.fmt = "Package %(pkg)s does not exist and we do not have enough information to create it."
       /\ outcome.message.pkg = frame.pkg
       /\ Len(sent) = 1
       /\ IsLookup(sent[1])

C2_Witness ==
    /\ Done("add_edit_package")
    /\ frame.arg_owner = Some("")
    /\ frame.arg_branches.some
    /\ LookupFailed
    /\ outcome.kind = "PackageDBError"

\* what get_package_info does with the payload of its one request
C3_PayloadHandling ==
    /\ Len(sent) = 1
    /\ IsLookup(sent[1])
    /\ sent[1].args = <<frame.pkg>>
    /\ Len(recv) = 1
    /\ ~recv[1].exc =>
          IF recv[1].hasStatus /\ recv[1].status \in {"False", "0"}
          THEN /\ outcome.kind = "AppError"
               /\ outcome.message = recv[1].message
          ELSE outcome = [kind |-> "return", value |-> recv[1]]

C3_BranchResolves ==
    \/ ~frame.branch.some
    \/ frame.branch.val = <<>>
    \/ canonical_branch_name(frame.branch.val).kind = "return"

\* C3 (as stated): every get_package_info(pkg, branch) sends exactly one
\* request to /packages/name/{pkg}, raises AppError with the payload's
\* message on a falsy 'status', and returns every other payload unchanged.
C3_Original == Done("get_package_info") => C3_PayloadHandling

\* C3 (amended): the same, for a branch that is omitted, empty or resolved by
\* canonical_branch_name; a branch that does not resolve raises locally and
\* no request is sent.
C3_GetPackageInfo ==
    Done("get_package_info") =>
        IF C3_BranchResolves
        THEN C3_PayloadHandling
        ELSE /\ sent = <<>>
             /\ recv = <<>>
             /\ outcome.kind \in {"PackageDBError", "ValueError"}

C3_Witness ==
    /\ Done("get_package_info")
    /\ frame.branch.some
    /\ Len(recv) = 1
    /\ recv[1].hasStatus
    /\ recv[1].status = "0"
    /\ outcome.kind = "AppError"
    /\ outcome.message = "no such package"

\* C4: for every key P of COLLECTIONMAP and every version string V,
\* canonical_branch_name("P-V") returns (COLLECTIONMAP[P], V), and
\* canonical_branch_name("devel") returns ("Fedora", "devel").
C4_CanonicalBranchName ==
    Done("canonical_branch_name") =>
        /\ frame.branch = Devel =>
              outcome = [kind |-> "return", value |-> <<"Fedora", Devel>>]
        /\ \A P \in DOMAIN COLLECTIONMAP :
              (/\ Len(frame.branch) > Len(P)
               /\ SubSeq(frame.branch, 1, Len(P)) = P
               /\ frame.branch[Len(P) + 1] = "-")
              => outcome =
                    [kind |-> "return",
                     value |-> <<COLLECTIONMAP[P],
                                 SubSeq(frame.branch, Len(P) + 2,
                                        Len(frame.branch))>>]

\* the piece of a token before its first "-" (the whole token without one)
RECURSIVE PrefixOf(_)
PrefixOf(t) ==
    IF t = <<>> \/ Head(t) = "-" THEN <<>>
    ELSE <<Head(t)>> \o PrefixOf(Tail(t))
Malformed(t) ==
    /\ t # Devel
    /\ \/ \A i \in 1..Len(t) : t[i] # "-"
       \/ PrefixOf(t) \notin DOMAIN COLLECTIONMAP

\* C5: a malformed branch token (not "devel", and without "-" or with an
\* unknown prefix before the first "-") makes canonical_branch_name raise
\* PackageDBError naming the prefix, and get_package_info given such a
\* branch raises it before any request is sent.
C5_MalformedToken ==
    /\ (Done("canonical_branch_name") /\ Malformed(frame.branch))
       => /\ outcome.kind = "PackageDBError"
          /\ outcome.message.collection = PrefixOf(frame.branch)
    /\ (/\ frame.op = "get_package_info"
        /\ frame.branch.some
        /\ frame.branch.val # <<>>
        /\ Malformed(frame.branch.val))
       => /\ sent = <<>>
          /\ pc = "done"
          /\ outcome.kind = "PackageDBError"
          /\ outcome.message.collection = PrefixOf(frame.branch.val)

\* C6: mass_branch(branch) sends one authenticated request to
\* /collections/mass_branch/{branch}, and on a failure envelope (status
\* false, a message, an 'extras' list) raises an error whose extras are the
\* response's extras instead of returning the payload.
C6_MassBranchExtras ==
    frame.op = "mass_branch" =>
        /\ sent = <<Request("/collections/mass_branch/%s", <<frame.branch>>,
                            TRUE, NoParams)>>
        /\ (/\ pc = "done"
            /\ ~recv[1].exc
            /\ recv[1].hasStatus
            /\ recv[1].status = "False"
            /\ recv[1].extras # <<>>)
           => /\ outcome.kind = "AppError"
              /\ outcome.extras = recv[1].extras

PublicOps == {"get_package_info", "clone_branch", "mass_branch",
              "add_edit_package", "get_owners", "remove_user"}

\* C7 (as stated): every public operation sends at most two requests per
\* invocation, one after the other; only add_edit_package sends more than
\* one.
C7_Original ==
    frame.op \in PublicOps =>
        /\ Len(sent) <= 2
        /\ Len(sent) <= Len(recv) + 1
        /\ frame.op # "add_edit_package" => Len(sent) <= 1

\* C7 (amended): every public operation sends at most three requests per
\* invocation (lookup, create, edit), each only after the answer to the one
\* before; only add_edit_package sends more than one.
C7_AtMostThree ==
    frame.op \in PublicOps =>
        /\ Len(sent) <= 3
        /\ Len(sent) <= Len(recv) + 1
        /\ frame.op # "add_edit_package" => Len(sent) <= 1

C7_Witness ==
    /\ InAddEdit
    /\ pc = "aep_edit"
    /\ Len(sent) = 3
    /\ Len(recv) = 2

C8_OneRequest ==
    /\ Len(sent) = 1
    /\ sent[1].route = "/packages/dispatcher/remove_user"
    /\ sent[1].auth
    /\ sent[1].params.some
    /\ sent[1].params.val.username = frame.username
    /\ sent[1].params.val.pkg_name = frame.pkg_name

\* C8 (as stated): remove_user sends one authenticated request with
\* username and pkg_name; with no collection list the params have no
\* 'collectn_list', with a collection list they carry it verbatim.
C8_Original ==
    frame.op = "remove_user" =>
        /\ C8_OneRequest
        /\ IF frame.collectn_list.some
           THEN /\ "collectn_list" \in DOMAIN sent[1].params.val
                /\ sent[1].params.val.collectn_list = frame.collectn_list.val
           ELSE "collectn_list" \notin DOMAIN sent[1].params.val

\* C8 (amended): ... with no collection list, or an empty one, the params
\* have no 'collectn_list'; with a non-empty list they carry it verbatim.
C8_RemoveUser ==
    frame.op = "remove_user" =>
        /\ C8_OneRequest
        /\ IF frame.collectn_list.some /\ frame.collectn_list.val # <<>>
           THEN /\ "collectn_list" \in DOMAIN sent[1].params.val
                /\ sent[1].params.val.collectn_list = frame.collectn_list.val
           ELSE "collectn_list" \notin DOMAIN sent[1].params.val

C8_Witness ==
    /\ Done("remove_user")
    /\ frame.collectn_list = Some(<<F10>>)
    /\ sent[1].params.val.collectn_list = <<F10>>
    /\ outcome.kind = "return"

\* C9: in add_edit_package an edit request follows only a successful lookup
\* or a successful create; a create response that reports failure raises
\* AppError with the package name and the server's message and no edit
\* request is sent; no request is sent twice in one invocation.
C9_EditOnlyAfterSuccess ==
    InAddEdit =>
        /\ \A i \in 1..Len(sent) :
              IsEdit(sent[i]) =>
                 \/ i = 2 /\ IsLookup(sent[1]) /\ Accepted(recv[1])
                 \/ i = 3 /\ IsCreate(sent[2]) /\ Accepted(recv[2])
        /\ (Len(recv) >= 2 /\ IsCreate(sent[2]) /\ ReportsFailure(recv[2]))
           => /\ pc = "done"
              /\ outcome.kind = "AppError"
              /\ outcome.message.pkg = frame.pkg
              /\ outcome.message.msg = recv[2].message
              /\ \A i \in 1..Len(sent) : ~IsEdit(sent[i])
        /\ \A i, j \in 1..Len(sent) : i # j => sent[i] # sent[j]

C9_Witness ==
    /\ Done("add_edit_package")
    /\ Len(sent) = 2
    /\ IsCreate(sent[2])
    /\ Len(recv) = 2
    /\ recv[2].status = "0"
    /\ outcome.kind = "AppError"
    /\ outcome.message.msg = "partial"

\* C10: add_edit_package whose lookup fails with an owner supplied sends the
\* create request for every value of branches (omitted, empty, without
\* "devel", with "devel"), and the edit request that follows carries
\* 'collections' with "devel" appended once if missing and not duplicated.
C10_DevelForEveryBranches ==
    (InAddEdit /\ Supplied(frame.arg_owner) /\ LookupFailed)
    => /\ Len(sent) >= 2
       /\ IsCreate(sent[2])
       /\ Len(sent) >= 3 =>
             /\ "collections" \in DOMAIN sent[3].params.val
             /\ CountDevel(sent[3].params.val.collections) =
                   IF CountDevel(frame.arg_branches.val) = 0 THEN 1
                   ELSE CountDevel(frame.arg_branches.val)
====
